---- MODULE Spec2Model ----
(***************************************************************************)
(* Audit framework (FastAPI + SQLAlchemy): transactions, the process-wide  *)
(* JaversService scope, the batch executor and the direct user/product     *)
(* endpoints, with the append-only audit_logs table.                       *)
(*                                                                         *)
(* Every request handler is an `async def` whose body holds no suspension  *)
(* point (the database calls are synchronous and the awaited helpers never *)
(* yield), so on the single uvicorn event loop of backend/main.py a        *)
(* handler runs from its first to its last line without another handler    *)
(* running in between: one handler is one action.  A handler is written   *)
(* as an operator from the state it finds and its request to its outcome:  *)
(* the state it leaves and the response it sends; Handle applies it.       *)
(* get_audit_summary alone is written query by query, and the event        *)
(* loop's serialisation is the guard event_loop_free of every other        *)
(* handler.                                                                *)
(*                                                                         *)
(* Encoding of Python values:                                              *)
(*   None of an Optional[str]            the string "None"                 *)
(*   None of an id or of a DateTime      0                                 *)
(*   None of a JSON column               <<>>, and a value x is <<x>>      *)
(*   a datetime                          a positive integer (clock value)  *)
(*   a table                             a function whose DOMAIN is the    *)
(*                                       set of primary keys stored        *)
(* An entity row has its primary key and one data column (username for    *)
(* User, name for Product, standing for all the data columns); the values  *)
(* of its created_at and updated_at columns are not modelled.              *)
(***************************************************************************)
EXTENDS Integers, Sequences, FiniteSets, TLC

\* Bounds of the model.
MaxTx == 2      \* transactions ever created
MaxAudit == 1   \* rows of audit_logs

VARIABLES
    transactions,            \* table transactions: transaction_id -> row
    next_transaction_uuid,   \* uuid4() values handed out as transaction ids
    tables,                  \* tables users/products: class name -> (id -> row)
    next_id,                 \* class name -> last primary key handed out
    audit_logs,              \* table audit_logs, in insertion (id) order
    next_commit_uuid,        \* uuid4() values stored as commit ids
    current_transaction_id,  \* javers_service.current_transaction_id
    current_author,          \* javers_service.current_author
    clock,                   \* the value datetime.now() returns; it advances
                             \* between two audit commits
    summary_query,           \* get_audit_summary: the queries it has run (0
                             \* when no summary request is being served)
    summary                  \* get_audit_summary: its locals, then its response

vars == <<transactions, next_transaction_uuid, tables, next_id, audit_logs,
          next_commit_uuid, current_transaction_id, current_author, clock,
          summary_query, summary>>

----------------------------------------------------------------------------
\* Values

NoneStr == "None"
NoneJson == <<>>
Some(x) == <<x>>

Classes == {"User", "Product"}
Values == {"a", "b"}

\* The data column of each mapped class.
DataField(cls) == IF cls = "User" THEN "username" ELSE "name"

\* The attributes hasattr() finds on an instance of the class.
Attributes(cls) == {"id", DataField(cls), "updated_at"}

\* str(id)
Str(n) == ToString(n)

\* Mutant: the generator repeats itself.
uuid4_repeating(issued) == issued

\* uuid.uuid4(): a value no earlier call returned; `issued` counts the calls.
uuid4(issued) == issued + 1

\* Mutant: the status argument is dropped and the column default applies.
NewTransaction_column_default(transaction_id, status) ==
    [transaction_id |-> transaction_id, status |-> "completed", completed_at |-> 0]

\* Transaction(transaction_id=..., status=...): completed_at is left NULL.
NewTransaction(transaction_id, status) ==
    [transaction_id |-> transaction_id, status |-> status, completed_at |-> 0]

\* A User or Product row.
Entity(cls, id, value) == ("id" :> id) @@ (DataField(cls) :> value)

Restrict(f, S) == [x \in S |-> f[x]]

Insert(table, id, row) == [x \in DOMAIN table \cup {id} |-> IF x = id THEN row ELSE table[x]]

Delete(table, id) == Restrict(table, DOMAIN table \ {id})

----------------------------------------------------------------------------
\* JaversService

\* The service's two fields as a value.
Scope(transaction_id, author) ==
    [current_transaction_id |-> transaction_id, current_author |-> author]

\* start_transaction: binds both fields, whatever was bound before.
\* Mutant: a bound scope is kept.
start_transaction_if_unbound(transaction_id, author) ==
    IF current_transaction_id = 0 THEN Scope(transaction_id, author)
    ELSE Scope(current_transaction_id, current_author)

start_transaction(transaction_id, author) == Scope(transaction_id, author)

\* end_transaction: clears both fields, whatever was bound.
end_transaction == Scope(0, NoneStr)

\* _extract_entity_values of a dict: every key, datetimes as ISO strings
\* (the dicts the handlers build hold no datetime).
extract_dict_values(entity) == entity

\* _extract_entity_values of a mapped object: the attributes of __dict__
\* whose name does not start with "_" (the modelled columns are all public).
extract_object_values(entity) == [key \in DOMAIN entity |-> entity[key]]

\* An entity handed to commit_changes: a mapped object or a dict.
Object(cls, row) == [is_dict |-> FALSE, class |-> cls, state |-> row]
Dict(row) == [is_dict |-> TRUE, class |-> "dict", state |-> row]

extract_entity_values(entity) ==
    IF entity.is_dict THEN extract_dict_values(entity.state)
    ELSE extract_object_values(entity.state)

\* Mutant: the guard is missing.
no_active_transaction_unchecked(scope) == FALSE

\* The guard of commit_changes: the scope must be bound.
no_active_transaction(scope) == scope.current_transaction_id = 0

\* The AuditLog row commit_changes builds.
AuditLog(scope, entity, change_type, old_values, changed_fields, entity_type, entity_id, commit_id, now) ==
    LET given == entity_type # NoneStr /\ entity_id # NoneStr
    IN [transaction_id |-> scope.current_transaction_id,
        entity_type |-> IF given THEN entity_type ELSE entity.class,
        entity_id |-> IF given THEN entity_id
                      ELSE IF "id" \in DOMAIN entity.state /\ ~entity.is_dict
                           THEN Str(entity.state["id"]) ELSE "unknown",
        change_type |-> change_type,
        old_values |-> old_values,
        new_values |-> Some(extract_entity_values(entity)),
        changed_fields |-> changed_fields,
        author |-> scope.current_author,
        commit_id |-> commit_id,
        commit_date |-> now]

\* commit_changes on the store `st` = [audit_logs, next_commit_uuid, clock]:
\* raises when no scope is bound or when the audit session fails (db_fails),
\* and appends one row otherwise.
commit_changes(scope, st, entity, change_type, old_values, changed_fields, entity_type, entity_id, db_fails) ==
    IF no_active_transaction(scope)
    THEN [raised |-> TRUE, error |-> "No active transaction", store |-> st]
    ELSE IF db_fails
    THEN [raised |-> TRUE, error |-> "audit store failure", store |-> st]
    ELSE [raised |-> FALSE, error |-> NoneStr,
          store |-> [audit_logs |-> Append(st.audit_logs,
                        AuditLog(scope, entity, change_type, old_values,
                                 changed_fields, entity_type, entity_id,
                                 uuid4(st.next_commit_uuid), st.clock)),
                     next_commit_uuid |-> uuid4(st.next_commit_uuid),
                     clock |-> st.clock + 1]]

\* Select(logs, rows): the rows of logs whose number is in rows, in the
\* order of insertion.
RECURSIVE Select(_, _)
Select(logs, rows) ==
    IF logs = <<>> THEN <<>>
    ELSE Select(SubSeq(logs, 1, Len(logs) - 1), rows)
            \o (IF Len(logs) \in rows THEN <<logs[Len(logs)]>> ELSE <<>>)

\* Mutant: the rows stay in the order of insertion.
order_by_commit_date_desc_missing(rows) == rows

\* .order_by(AuditLog.commit_date.desc()): the latest row first.
RECURSIVE order_by_commit_date_desc(_)
order_by_commit_date_desc(rows) ==
    IF rows = <<>> THEN <<>>
    ELSE LET latest == CHOOSE i \in DOMAIN rows :
                          \A j \in DOMAIN rows : rows[j].commit_date <= rows[i].commit_date
         IN <<rows[latest]>>
            \o order_by_commit_date_desc(SubSeq(rows, 1, latest - 1)
                                          \o SubSeq(rows, latest + 1, Len(rows)))

\* get_changes_for_transaction: the rows filtered by transaction_id, each
\* as its change_data dict.
get_changes_for_transaction(logs, transaction_id) ==
    LET found == Select(logs, {i \in DOMAIN logs : logs[i].transaction_id = transaction_id})
    IN [i \in 1..Len(found) |->
          [commit_id |-> found[i].commit_id, commit_date |-> found[i].commit_date,
           author |-> found[i].author, change_type |-> found[i].change_type,
           entity_type |-> found[i].entity_type, entity_id |-> found[i].entity_id,
           old_values |-> found[i].old_values, new_values |-> found[i].new_values,
           changed_fields |-> found[i].changed_fields,
           transaction_id |-> transaction_id]]

\* get_entity_history: the rows filtered by entity_type and entity_id,
\* ordered by commit_date descending.
get_entity_history(logs, entity_type, entity_id) ==
    LET found == order_by_commit_date_desc(Select(logs, {i \in DOMAIN logs :
                        /\ logs[i].entity_type = entity_type
                        /\ logs[i].entity_id = entity_id}))
    IN [i \in 1..Len(found) |->
          [commit_id |-> found[i].commit_id, commit_date |-> found[i].commit_date,
           author |-> found[i].author, state |-> found[i].new_values,
           change_type |-> found[i].change_type]]

\* Mutant: the filter on transaction_id is missing.
audit_logs_count_unfiltered(logs, transaction_id) == Len(logs)

\* The number of audit rows that reference a transaction id.
audit_logs_count(logs, transaction_id) ==
    Cardinality({i \in DOMAIN logs : logs[i].transaction_id = transaction_id})

----------------------------------------------------------------------------
\* States, responses and outcomes

\* The state a handler finds.
State ==
    [transactions |-> transactions,
     next_transaction_uuid |-> next_transaction_uuid,
     tables |-> tables, next_id |-> next_id,
     audit_logs |-> audit_logs, next_commit_uuid |-> next_commit_uuid,
     current_transaction_id |-> current_transaction_id,
     current_author |-> current_author,
     clock |-> clock]

\* A response: the HTTP status, the message or detail, and for a batch the
\* results and audit_commit_errors lists.
Response(code, detail) ==
    [code |-> code, detail |-> detail, results |-> <<>>, audit_commit_errors |-> <<>>]

Outcome(state, response) == [state |-> state, response |-> response]

\* The handler raises HTTPException before it changes anything.
Rejected(code, detail) == Outcome(State, Response(code, detail))

----------------------------------------------------------------------------
\* Transactions API

\* POST /transactions
create_transaction ==
    LET transaction_id == next_transaction_uuid + 1
    IN Outcome([State EXCEPT
                  !.transactions = Insert(@, transaction_id,
                                          NewTransaction(transaction_id, "pending")),
                  !.next_transaction_uuid = transaction_id],
               Response(200, "pending"))

\* Mutant: a completed transaction is completed again.
complete_rejects_completed_never(transaction_id) == FALSE

\* complete_transaction: `if db_transaction.status == "completed"`.
complete_rejects_completed(transaction_id) ==
    transactions[transaction_id].status = "completed"

\* Mutant: the check is missing.
has_no_operations_unchecked(transaction_id) == FALSE

\* Mutant: the check asks for more than one audit row.
has_no_operations_off_by_one(transaction_id) ==
    audit_logs_count(audit_logs, transaction_id) <= 1

\* complete_transaction: `if audit_logs_count == 0`.
has_no_operations(transaction_id) ==
    audit_logs_count(audit_logs, transaction_id) = 0

\* Mutant: completed_at is not set.
sealed_transaction_without_completed_at(db_transaction, now) ==
    [db_transaction EXCEPT !.status = "completed"]

\* complete_transaction: status = "completed", completed_at = datetime.now().
sealed_transaction(db_transaction, now) ==
    [db_transaction EXCEPT !.status = "completed", !.completed_at = now]

\* POST /transactions/{transaction_id}/complete
complete_transaction(transaction_id) ==
    IF transaction_id \notin DOMAIN transactions
    THEN Rejected(404, "Transaction not found")
    ELSE IF complete_rejects_completed(transaction_id)
    THEN Rejected(400, "Transaction already completed")
    ELSE IF has_no_operations(transaction_id)
    THEN Rejected(400, "Transaction cannot be completed without any operations. Please add at least one operation before completing.")
    ELSE Outcome([State EXCEPT
                    !.transactions[transaction_id] =
                        sealed_transaction(@, clock),
                    !.current_transaction_id = end_transaction.current_transaction_id,
                    !.current_author = end_transaction.current_author],
                 Response(200, "Transaction completed successfully"))

\* Mutant: the delete cascades to the transaction's audit rows.
delete_transaction_cascading(transaction_id) ==
    IF transaction_id \notin DOMAIN transactions
    THEN Rejected(404, "Transaction not found")
    ELSE Outcome([State EXCEPT
                    !.transactions = Delete(@, transaction_id),
                    !.audit_logs = Select(@, {i \in DOMAIN @ :
                                        @[i].transaction_id # transaction_id})],
                 Response(200, "Transaction deleted successfully"))

\* DELETE /transactions/{transaction_id}
delete_transaction(transaction_id) ==
    IF transaction_id \notin DOMAIN transactions
    THEN Rejected(404, "Transaction not found")
    ELSE Outcome([State EXCEPT !.transactions = Delete(@, transaction_id)],
                 Response(200, "Transaction deleted successfully"))

----------------------------------------------------------------------------
\* Batch executor

\* One element of TransactionOperation.operations: operation.get("type"),
\* .get("operation"), .get("user_id") / .get("product_id"), .get("data", {}).
Operation(type, operation, id, data) ==
    [type |-> type, operation |-> operation, id |-> id, data |-> data]

\* The request's SQLAlchemy session while the batch runs: the tables with the
\* flushed changes, the state of every object the batch touched (kept after a
\* delete: the instance outlives its row), and the handler's two lists.
Session(tbls, ids, fail_at) ==
    [tables |-> tbls, next_id |-> ids,
     objects |-> [cls \in Classes |-> <<>>],
     fail_at |-> fail_at, index |-> 0, raised |-> FALSE,
     results |-> <<>>, audit_entries |-> <<>>]

\* The audit_entry dict of an operation; "entity" is the mapped instance
\* (named by class and id, read when commit_changes runs) or a dict.
AuditEntry(entity, change_type, old_values, changed_fields, entity_type, entity_id) ==
    [entity |-> entity, change_type |-> change_type, old_values |-> old_values,
     changed_fields |-> changed_fields, entity_type |-> entity_type,
     entity_id |-> entity_id]

Instance(cls, id) == [is_dict |-> FALSE, class |-> cls, id |-> id, state |-> <<>>]
DictEntity(d) == [is_dict |-> TRUE, class |-> "dict", id |-> 0, state |-> d]

\* db.flush() of operation number s.index: raises when the primary store
\* fails there.
flush_raises(s) == s.fail_at = s.index

Result(type, operation, success, id) ==
    [type |-> type, operation |-> operation, success |-> success, id |-> id]

Failure(type, operation, error) ==
    [type |-> type, operation |-> operation, success |-> FALSE, error |-> error]

\* Mutant: every submitted attribute is listed, changed or not.
changed_fields_of_payload(cls, row, data) == DOMAIN data \cap Attributes(cls)

\* The fields of the payload the update loop assigns, and so lists in
\* changed_fields: attributes of the instance whose value differs.
\* (a submitted JSON value never equals the datetime or None of updated_at).
changed_fields_of(cls, row, data) ==
    {field \in DOMAIN data \cap Attributes(cls) :
        IF field \in DOMAIN row THEN row[field] # data[field] ELSE TRUE}

\* The row after the update loop and `updated_at = datetime.now()`, which
\* overwrites whatever the loop assigned to updated_at.
updated_row(cls, row, data) ==
    [field \in DOMAIN row |->
        IF field \in changed_fields_of(cls, row, data) THEN data[field]
        ELSE row[field]]

\* old_values of an update, and the dict a delete saves: the data columns
\* (and, for the delete, the primary key).
old_values_of(cls, row) == (DataField(cls) :> row[DataField(cls)])

\* Mutant: only the primary key is saved.
deleted_data_of_key_only(cls, row) == ("id" :> row["id"])

deleted_data_of(cls, row) == ("id" :> row["id"]) @@ old_values_of(cls, row)

\* What an operation function hands back: the session after its statements
\* and the value of its return statement, the pair (result, audit_entry) or
\* the bare dict of a soft failure. A flush that raises returns nothing.
Returned(s, value) == [session |-> s, returned |-> value]

Raised(s) == Returned([s EXCEPT !.raised = TRUE], <<>>)

\* The body shared, line for line, by _execute_user_operation and
\* _execute_product_operation.
execute_entity_operation(cls, type, operation, s) ==
    LET op == operation.operation
        id == operation.id
        data == operation.data
        found == id \in DOMAIN s.tables[cls]
    IN
    IF op = "create" THEN
        LET new_id == s.next_id[cls] + 1
            row == Entity(cls, new_id,
                          IF DataField(cls) \in DOMAIN data
                          THEN data[DataField(cls)] ELSE NoneStr)
        IN IF flush_raises(s) THEN Raised(s)
           ELSE Returned([s EXCEPT
                            !.tables[cls] = Insert(@, new_id, row),
                            !.next_id[cls] = new_id,
                            !.objects[cls] = Insert(@, new_id, row)],
                         <<Result(type, "create", TRUE, new_id),
                           AuditEntry(Instance(cls, new_id), "CREATED", NoneJson,
                                      NoneJson, NoneStr, NoneStr)>>)
    ELSE IF op = "update" THEN
        IF ~found
        THEN Returned(s, Failure(type, "update", cls \o " not found"))
        ELSE LET row == s.tables[cls][id]
                 new_row == updated_row(cls, row, data)
             IN IF flush_raises(s) THEN Raised(s)
                ELSE Returned([s EXCEPT
                                 !.tables[cls] = Insert(@, id, new_row),
                                 !.objects[cls] = Insert(@, id, new_row)],
                              <<Result(type, "update", TRUE, id),
                                AuditEntry(Instance(cls, id), "UPDATED",
                                           Some(old_values_of(cls, row)),
                                           Some(changed_fields_of(cls, row, data)),
                                           NoneStr, NoneStr)>>)
    ELSE IF op = "delete" THEN
        IF ~found
        THEN Returned(s, Failure(type, "delete", cls \o " not found"))
        ELSE LET row == s.tables[cls][id]
             IN IF flush_raises(s) THEN Raised(s)
                ELSE Returned([s EXCEPT
                                 !.tables[cls] = Delete(@, id),
                                 !.objects[cls] = Insert(@, id, row)],
                              <<Result(type, "delete", TRUE, id),
                                AuditEntry(DictEntity(deleted_data_of(cls, row)),
                                           "DELETED", NoneJson, NoneJson, cls, Str(id))>>)
    ELSE Returned(s, Failure(type, op, "Unknown operation"))

execute_user_operation(operation, s) ==
    execute_entity_operation("User", "user", operation, s)

execute_product_operation(operation, s) ==
    execute_entity_operation("Product", "product", operation, s)

\* `result, audit_entry = ...` iterates the returned value: a pair unpacks,
\* the four-key dict of a soft failure raises ValueError.
unpack_raises(returned) == Cardinality(DOMAIN returned) # 2

\* Mutant: the draft of the operation is not kept.
unpack_dropping_draft(r) ==
    IF r.session.raised THEN r.session
    ELSE IF unpack_raises(r.returned) THEN [r.session EXCEPT !.raised = TRUE]
    ELSE [r.session EXCEPT !.results = Append(@, r.returned[1])]

\* Mutant: the draft of an update that changed nothing is not kept.
unpack_suppressing_unchanged(r) ==
    IF r.session.raised THEN r.session
    ELSE IF unpack_raises(r.returned) THEN [r.session EXCEPT !.raised = TRUE]
    ELSE IF r.returned[2].changed_fields = Some({})
    THEN [r.session EXCEPT !.results = Append(@, r.returned[1])]
    ELSE [r.session EXCEPT !.results = Append(@, r.returned[1]),
                           !.audit_entries = Append(@, r.returned[2])]

\* The handler's statements around a call of an operation function:
\* unpack, results.append(result), audit_entries.append(audit_entry).
unpack(r) ==
    IF r.session.raised THEN r.session
    ELSE IF unpack_raises(r.returned) THEN [r.session EXCEPT !.raised = TRUE]
    ELSE [r.session EXCEPT !.results = Append(@, r.returned[1]),
                           !.audit_entries = Append(@, r.returned[2])]

\* One turn of the handler's `for operation in operations.operations` loop.
dispatch_operation(operation, s) ==
    IF operation.type = "user" THEN unpack(execute_user_operation(operation, s))
    ELSE IF operation.type = "product" THEN unpack(execute_product_operation(operation, s))
    ELSE [s EXCEPT !.results = Append(@, [error |-> "Unknown operation type"])]

\* The loop: it ends at the first operation that raises.
RECURSIVE run_operations(_, _)
run_operations(operations, s) ==
    IF operations = <<>> \/ s.raised THEN s
    ELSE run_operations(Tail(operations),
                        dispatch_operation(Head(operations),
                                           [s EXCEPT !.index = @ + 1]))

\* The entity a draft holds, as commit_changes reads it after db.commit().
entity_of(audit_entry, s) ==
    IF audit_entry.entity.is_dict THEN Dict(audit_entry.entity.state)
    ELSE Object(audit_entry.entity.class,
                s.objects[audit_entry.entity.class][audit_entry.entity.id])

\* The item appended to commit_errors for a draft whose commit raised.
commit_error(audit_entry, error) ==
    [entity_type |-> IF audit_entry.entity_type # NoneStr
                     THEN audit_entry.entity_type ELSE audit_entry.entity.class,
     entity_id |-> IF audit_entry.entity_id # NoneStr
                   THEN audit_entry.entity_id
                   ELSE IF audit_entry.entity.is_dict THEN "unknown"
                   ELSE Str(audit_entry.entity.id),
     error |-> error]

\* Mutant: the loop ends after its first draft.
write_audit_entries_first_only(scope, s, audit_entries, i, audit_fails, acc) ==
    IF audit_entries = <<>> THEN acc
    ELSE LET audit_entry == Head(audit_entries)
             r == commit_changes(scope, acc.store, entity_of(audit_entry, s),
                                 audit_entry.change_type, audit_entry.old_values,
                                 audit_entry.changed_fields, audit_entry.entity_type,
                                 audit_entry.entity_id, i \in audit_fails)
         IN [store |-> r.store,
             commit_errors |-> IF r.raised
                               THEN Append(acc.commit_errors,
                                           commit_error(audit_entry, r.error))
                               ELSE acc.commit_errors]

\* The handler's `for audit_entry in audit_entries` loop: drafts number
\* i.. are committed one by one; a draft whose number is in audit_fails meets
\* a failing audit session. acc = [store, commit_errors].
RECURSIVE write_audit_entries(_, _, _, _, _, _)
write_audit_entries(scope, s, audit_entries, i, audit_fails, acc) ==
    IF audit_entries = <<>> THEN acc
    ELSE LET audit_entry == Head(audit_entries)
             r == commit_changes(scope, acc.store, entity_of(audit_entry, s),
                                 audit_entry.change_type, audit_entry.old_values,
                                 audit_entry.changed_fields, audit_entry.entity_type,
                                 audit_entry.entity_id, i \in audit_fails)
         IN write_audit_entries(scope, s, Tail(audit_entries), i + 1, audit_fails,
                [store |-> r.store,
                 commit_errors |-> IF r.raised
                                   THEN Append(acc.commit_errors,
                                               commit_error(audit_entry, r.error))
                                   ELSE acc.commit_errors])

\* The faults the environment can inject into one execute request:
\* primary = k in 1..Len(operations): the flush of operation k raises;
\* primary = Len(operations) + 1: the final db.commit() raises;
\* audit: the numbers of the drafts whose audit commit fails.
Fault(primary, audit) == [primary |-> primary, audit |-> audit]

\* Mutant: a failing commit goes unnoticed.
db_commit_raises_never(operations, fault) == FALSE

\* `db.commit()` after the loop raises when the primary store fails there.
db_commit_raises(operations, fault) == fault.primary = Len(operations) + 1

\* Mutant: the flushed changes survive the rollback.
rollback_keeping_flushed(started, s) ==
    [started EXCEPT !.tables = s.tables, !.next_id = s.next_id]

\* `except Exception: db.rollback()`: the session's flushed changes are
\* discarded; what the handler did outside the session stays.
rollback(started, s) == started

\* Mutant: a completed transaction still runs batches.
execute_rejects_completed_never(transaction_id) == FALSE

\* execute_transaction_operations: `if db_transaction.status == "completed"`.
execute_rejects_completed(transaction_id) ==
    transactions[transaction_id].status = "completed"

\* POST /transactions/{transaction_id}/execute
execute_transaction_operations(transaction_id, operations, fault) ==
    IF transaction_id \notin DOMAIN transactions
    THEN Rejected(404, "Transaction not found")
    ELSE IF execute_rejects_completed(transaction_id)
    THEN Rejected(400, "Transaction already completed")
    ELSE
      LET scope == start_transaction(transaction_id, "system")
          started == [State EXCEPT
                        !.current_transaction_id = scope.current_transaction_id,
                        !.current_author = scope.current_author]
          s == run_operations(operations, Session(tables, next_id, fault.primary))
          commit_raises == db_commit_raises(operations, fault)
          written == write_audit_entries(scope, s, s.audit_entries, 1, fault.audit,
                        [store |-> [audit_logs |-> audit_logs,
                                    next_commit_uuid |-> next_commit_uuid,
                                    clock |-> clock],
                         commit_errors |-> <<>>])
      IN IF s.raised \/ commit_raises
         THEN \* except Exception: db.rollback()
              Outcome(rollback(started, s), Response(500, "Transaction failed"))
         ELSE Outcome([started EXCEPT
                         !.tables = s.tables,
                         !.next_id = s.next_id,
                         !.audit_logs = written.store.audit_logs,
                         !.next_commit_uuid = written.store.next_commit_uuid,
                         !.clock = written.store.clock],
                      [Response(200, "Operations executed successfully") EXCEPT
                         !.results = s.results,
                         !.audit_commit_errors = written.commit_errors])

----------------------------------------------------------------------------
\* Users and products API (the direct endpoints)

\* The service as a handler finds it: get_javers_service() returns the one
\* process-wide instance.
get_javers_service == Scope(current_transaction_id, current_author)

\* The tail every direct handler shares: the primary-store change is already
\* committed when commit_changes(entity, message) runs with its defaults
\* (change_type "CREATED", no old_values, changed_fields, entity_type, entity_id).
\* When it raises, the request ends in a 500; the response's detail names the
\* exception that ended it.
audit_logging(committed, entity) ==
    LET r == commit_changes(get_javers_service,
                            [audit_logs |-> audit_logs,
                             next_commit_uuid |-> next_commit_uuid,
                             clock |-> clock],
                            entity, "CREATED", NoneJson, NoneJson, NoneStr,
                            NoneStr, FALSE)
    IN IF r.raised THEN Outcome(committed, Response(500, r.error))
       ELSE Outcome([committed EXCEPT
                       !.audit_logs = r.store.audit_logs,
                       !.next_commit_uuid = r.store.next_commit_uuid,
                       !.clock = r.store.clock],
                    Response(200, "ok"))

\* The row after `for field, value in update_data.items(): setattr(...)`.
assigned_row(row, update_data) ==
    [field \in DOMAIN row |->
        IF field \in DOMAIN update_data THEN update_data[field] ELSE row[field]]

create_entity(cls, value) ==
    LET id == next_id[cls] + 1
        row == Entity(cls, id, value)
    IN audit_logging([State EXCEPT !.tables[cls] = Insert(@, id, row),
                                   !.next_id[cls] = id],
                     Object(cls, row))

\* POST /users
create_user(username) ==
    IF \E id \in DOMAIN tables["User"] : tables["User"][id]["username"] = username
    THEN \* HTTPException(400) raised inside the try, re-raised as a 500
         Rejected(500, "Username or email already exists")
    ELSE create_entity("User", username)

\* POST /products
create_product(name) == create_entity("Product", name)

update_entity(cls, id, update_data) ==
    IF id \notin DOMAIN tables[cls] THEN Rejected(404, cls \o " not found")
    ELSE LET row == assigned_row(tables[cls][id], update_data)
         IN audit_logging([State EXCEPT !.tables[cls] = Insert(@, id, row)],
                          Object(cls, row))

\* PUT /users/{user_id}
update_user(user_id, user_update) == update_entity("User", user_id, user_update)

\* PUT /products/{product_id}
update_product(product_id, product_update) ==
    update_entity("Product", product_id, product_update)

delete_entity(cls, id) ==
    IF id \notin DOMAIN tables[cls] THEN Rejected(404, cls \o " not found")
    ELSE audit_logging([State EXCEPT !.tables[cls] = Delete(@, id)],
                       Dict(deleted_data_of(cls, tables[cls][id])))

\* DELETE /users/{user_id}
delete_user(user_id) == delete_entity("User", user_id)

\* DELETE /products/{product_id}
delete_product(product_id) == delete_entity("Product", product_id)

----------------------------------------------------------------------------
\* Audit API: GET /audit/summary

\* `cutoff_date = datetime.now() - timedelta(days=days)`, in clock values.
cutoff_date(days) == clock - days

\* AuditLog.created_at: the server's now() at the insert, the instant
\* commit_changes stored as commit_date.
created_at(log) == log.commit_date

\* `.filter(AuditLog.created_at >= cutoff_date)`
since(logs, cutoff) ==
    Select(logs, {i \in DOMAIN logs : created_at(logs[i]) >= cutoff})

\* `db.query(AuditLog).filter(...).count()`
total_logs(logs, cutoff) == Len(since(logs, cutoff))

\* `db.query(AuditLog.transaction_id).filter(...).distinct().count()`
unique_transactions(logs, cutoff) ==
    Cardinality({since(logs, cutoff)[i].transaction_id :
                    i \in DOMAIN since(logs, cutoff)})

\* `counts[value[0]] = counts.get(value[0], 0) + 1` over the rows of one
\* column.
column_counts(rows, column) ==
    [value \in {rows[i][column] : i \in DOMAIN rows} |->
        Cardinality({i \in DOMAIN rows : rows[i][column] = value})]

\* `db.query(AuditLog.change_type).filter(...).all()` and its counting loop.
change_type_counts(logs, cutoff) == column_counts(since(logs, cutoff), "change_type")

\* `db.query(AuditLog.entity_type).filter(...).all()` and its counting loop.
entity_type_counts(logs, cutoff) == column_counts(since(logs, cutoff), "entity_type")

\* The locals of get_audit_summary before its first query; the response
\* carries every field but cutoff_date.
NoSummary ==
    [period_days |-> 0, cutoff_date |-> 0, total_audit_logs |-> 0,
     unique_transactions |-> 0, change_type_breakdown |-> <<>>,
     entity_type_breakdown |-> <<>>]

\* Mutant: handlers run on several threads, one may start while another is
\* between two of its queries.
event_loop_shared == TRUE

\* get_audit_summary is a coroutine function whose body holds no await: the
\* event loop runs it from its first query to its return before it starts
\* the handler of another request.
event_loop_free == summary_query = 0

\* GET /audit/summary, its first query: the cutoff and the total.
get_audit_summary(days) ==
    /\ summary_query = 0
    /\ summary' = [NoSummary EXCEPT
                     !.period_days = days,
                     !.cutoff_date = cutoff_date(days),
                     !.total_audit_logs = total_logs(audit_logs, cutoff_date(days))]
    /\ summary_query' = 1
    /\ UNCHANGED <<transactions, next_transaction_uuid, tables, next_id,
                   audit_logs, next_commit_uuid, current_transaction_id,
                   current_author, clock>>

\* GET /audit/summary, its second, third and fourth query; the response is
\* returned after the fourth.
get_audit_summary_next_query ==
    /\ summary_query \in 1..3
    /\ summary' =
          IF summary_query = 1
          THEN [summary EXCEPT !.unique_transactions =
                    unique_transactions(audit_logs, summary.cutoff_date)]
          ELSE IF summary_query = 2
          THEN [summary EXCEPT !.change_type_breakdown =
                    change_type_counts(audit_logs, summary.cutoff_date)]
          ELSE [summary EXCEPT !.entity_type_breakdown =
                    entity_type_counts(audit_logs, summary.cutoff_date)]
    /\ summary_query' = IF summary_query = 3 THEN 0 ELSE summary_query + 1
    /\ UNCHANGED <<transactions, next_transaction_uuid, tables, next_id,
                   audit_logs, next_commit_uuid, current_transaction_id,
                   current_author, clock>>

----------------------------------------------------------------------------
\* The requests the clients send

TransactionIds == 1..MaxTx

\* The primary keys of the model: one row per entity table.
Ids == {1}

ClassOf(type) == IF type = "user" THEN "User" ELSE "Product"

\* The payloads over the data column of a class: none, or a value.
Payloads(cls, values) == {<<>>} \cup {(DataField(cls) :> v) : v \in values}

\* The operations of a batch: create, update, delete and an unknown verb for
\* each entity kind, and an unknown kind.
Operations(values) ==
    UNION {
        {Operation(type, "create", 0, (DataField(ClassOf(type)) :> v)) : v \in values}
        \cup {Operation(type, "update", id, data) :
                id \in Ids, data \in Payloads(ClassOf(type), values)}
        \cup {Operation(type, "delete", id, <<>>) : id \in Ids}
        \cup {Operation(type, "archive", 0, <<>>)}
        : type \in {"user", "product"}}
    \cup {Operation("bogus", "create", 0, <<>>)}

\* The faults of one execute request: none, the audit commit of some drafts,
\* the flush of one operation, or the final commit.
Faults(operations) ==
    {Fault(0, audit) : audit \in SUBSET (1..Len(operations))}
    \cup {Fault(k, {}) : k \in 1..(Len(operations) + 1)}

\* The handler's outcome becomes the state, within the bounds of the model:
\* at most MaxTx transactions, at most max_audit audit rows, primary keys
\* in ids.
HandleWithin(outcome, max_audit, ids) ==
    /\ event_loop_free
    /\ UNCHANGED <<summary_query, summary>>
    /\ outcome.state.next_transaction_uuid <= MaxTx
    /\ Len(outcome.state.audit_logs) <= max_audit
    /\ \A cls \in Classes : outcome.state.next_id[cls] \in ids \cup {0}
    /\ transactions' = outcome.state.transactions
    /\ next_transaction_uuid' = outcome.state.next_transaction_uuid
    /\ tables' = outcome.state.tables
    /\ next_id' = outcome.state.next_id
    /\ audit_logs' = outcome.state.audit_logs
    /\ next_commit_uuid' = outcome.state.next_commit_uuid
    /\ current_transaction_id' = outcome.state.current_transaction_id
    /\ current_author' = outcome.state.current_author
    /\ clock' = outcome.state.clock

Handle(outcome, max_audit) == HandleWithin(outcome, max_audit, Ids)

----------------------------------------------------------------------------
\* Spec: every handler, with batches of at most one operation and one value
\* for the data columns.

SpecValues == {"a"}
SpecBatches == {<<>>} \cup {<<operation>> : operation \in Operations(SpecValues)}

\* The bodies sent to /execute: the handler rejects a request for a missing
\* or completed transaction before it reads the body, so one body stands for
\* all of them there.
SpecBodies(transaction_id) ==
    IF /\ transaction_id \in DOMAIN transactions
       /\ transactions[transaction_id].status # "completed"
    THEN SpecBatches ELSE {<<>>}

Init ==
    /\ transactions = <<>>
    /\ next_transaction_uuid = 0
    /\ tables = [cls \in Classes |-> <<>>]
    /\ next_id = [cls \in Classes |-> 0]
    /\ audit_logs = <<>>
    /\ next_commit_uuid = 0
    /\ current_transaction_id = 0
    /\ current_author = NoneStr
    /\ clock = 1
    /\ summary_query = 0
    /\ summary = NoSummary

Requests(max_audit) ==
    \/ Handle(create_transaction, max_audit)
    \/ \E transaction_id \in TransactionIds :
          Handle(complete_transaction(transaction_id), max_audit)
    \/ \E transaction_id \in TransactionIds :
          Handle(delete_transaction(transaction_id), max_audit)
    \/ \E transaction_id \in TransactionIds :
          \E operations \in SpecBodies(transaction_id) :
          \E fault \in Faults(operations) :
             Handle(execute_transaction_operations(transaction_id, operations, fault),
                    max_audit)
    \/ \E value \in SpecValues : Handle(create_user(value), max_audit)
    \/ \E value \in SpecValues : Handle(create_product(value), max_audit)
    \/ \E id \in Ids, data \in Payloads("User", SpecValues) :
          Handle(update_user(id, data), max_audit)
    \/ \E id \in Ids, data \in Payloads("Product", SpecValues) :
          Handle(update_product(id, data), max_audit)
    \/ \E id \in Ids : Handle(delete_user(id), max_audit)
    \/ \E id \in Ids : Handle(delete_product(id), max_audit)

Next == Requests(MaxAudit)

Spec == Init /\ [][Next]_vars

----------------------------------------------------------------------------
\* SpecSealed: the same requests, from the state Spec reaches when
\* transaction 1 was created, has run the batch [create user "a"] and was
\* completed; MaxAudit bounds the audit rows written after that.

SealedInit ==
    /\ transactions = <<[transaction_id |-> 1, status |-> "completed", completed_at |-> 2]>>
    /\ next_transaction_uuid = 1
    /\ tables = [cls \in Classes |-> IF cls = "User" THEN <<Entity("User", 1, "a")>> ELSE <<>>]
    /\ next_id = [cls \in Classes |-> IF cls = "User" THEN 1 ELSE 0]
    /\ audit_logs = <<[transaction_id |-> 1, entity_type |-> "User", entity_id |-> "1",
                       change_type |-> "CREATED", old_values |-> NoneJson,
                       new_values |-> Some(Entity("User", 1, "a")),
                       changed_fields |-> NoneJson, author |-> "system",
                       commit_id |-> 1, commit_date |-> 1]>>
    /\ next_commit_uuid = 1
    /\ current_transaction_id = 0
    /\ current_author = NoneStr
    /\ clock = 2
    /\ summary_query = 0
    /\ summary = NoSummary

SealedNext == Requests(MaxAudit + 1)

SpecSealed == SealedInit /\ [][SealedNext]_vars

\* SealedInit is a state of Spec.
SealedInitReached == SealedInit

----------------------------------------------------------------------------
\* SpecBatch: the batch executor with batches of up to two operations over
\* two values, from the state Spec reaches when transaction 1 was created and
\* a direct create_user("a") stored user 1 (its audit commit found no scope).

BatchIds == {1, 2}

BatchOperations ==
    {Operation("user", "create", 0, ("username" :> v)) : v \in Values}
    \cup {Operation("user", "update", 1, data) :
            data \in Payloads("User", Values)
                     \cup {("nickname" :> "a"), ("updated_at" :> "b")}}
    \cup {Operation("user", "update", 2, ("username" :> "b")),
          Operation("user", "delete", 1, <<>>),
          Operation("user", "archive", 0, <<>>),
          Operation("product", "create", 0, ("name" :> "a")),
          Operation("bogus", "create", 0, <<>>)}

BatchBatches ==
    {<<>>} \cup {<<operation>> : operation \in BatchOperations}
           \cup {<<first, second>> : first \in BatchOperations, second \in BatchOperations}

\* The bodies sent to /execute: the first request that passes the handler's
\* checks carries any batch, every other request an empty one.
BatchBodies(transaction_id) ==
    IF /\ transaction_id \in DOMAIN transactions
       /\ transactions[transaction_id].status # "completed"
       /\ current_transaction_id = 0
    THEN BatchBatches ELSE {<<>>}

BatchInit ==
    /\ transactions = <<NewTransaction(1, "pending")>>
    /\ next_transaction_uuid = 1
    /\ tables = [cls \in Classes |-> IF cls = "User" THEN <<Entity("User", 1, "a")>> ELSE <<>>]
    /\ next_id = [cls \in Classes |-> IF cls = "User" THEN 1 ELSE 0]
    /\ audit_logs = <<>>
    /\ next_commit_uuid = 0
    /\ current_transaction_id = 0
    /\ current_author = NoneStr
    /\ clock = 1
    /\ summary_query = 0
    /\ summary = NoSummary

BatchNext ==
    \/ \E transaction_id \in TransactionIds :
          \E operations \in BatchBodies(transaction_id) :
          \E fault \in Faults(operations) :
             HandleWithin(execute_transaction_operations(transaction_id, operations, fault),
                          MaxAudit + 1, BatchIds)
    \/ \E transaction_id \in TransactionIds :
          HandleWithin(complete_transaction(transaction_id), MaxAudit + 1, BatchIds)
    \/ \E transaction_id \in TransactionIds :
          HandleWithin(delete_transaction(transaction_id), MaxAudit + 1, BatchIds)

SpecBatch == BatchInit /\ [][BatchNext]_vars

\* BatchInit is a state of Spec.
BatchInitReached == BatchInit

----------------------------------------------------------------------------
\* SpecSummary: summary requests among batches that append audit rows of
\* different change types, entity types and transactions, from the initial
\* state of SpecBatch.

\* The `days` of a summary request, in clock values.
SummaryDays == {1, 2}

SummaryBatches ==
    {<<Operation("product", "create", 0, ("name" :> "a"))>>,
     <<Operation("user", "update", 1, ("username" :> "b"))>>,
     <<Operation("user", "delete", 1, <<>>)>>}

SummaryInit == BatchInit

SummaryNext ==
    \/ HandleWithin(create_transaction, MaxAudit + 1, BatchIds)
    \/ \E transaction_id \in TransactionIds :
          \E operations \in SummaryBatches :
             HandleWithin(execute_transaction_operations(transaction_id, operations,
                                                         Fault(0, {})),
                          MaxAudit + 1, BatchIds)
    \/ \E days \in SummaryDays : get_audit_summary(days)
    \/ get_audit_summary_next_query

SpecSummary == SummaryInit /\ [][SummaryNext]_vars

----------------------------------------------------------------------------
\* Properties

Pending(t) == t \in DOMAIN transactions /\ transactions[t].status = "pending"

Completed(t) == t \in DOMAIN transactions /\ transactions[t].status = "completed"

\* The audit rows that reference transaction t.
EntriesOf(t) == {i \in DOMAIN audit_logs : audit_logs[i].transaction_id = t}

ScopeUnchangedBy(outcome) ==
    /\ outcome.state.current_transaction_id = current_transaction_id
    /\ outcome.state.current_author = current_author

\* C1: every stored transaction whose status is completed has at least one
\* audit row that references it.
C1_CompletedHasEntries ==
    \A t \in DOMAIN transactions :
        transactions[t].status = "completed" => EntriesOf(t) # {}

C1_Witness == \E t \in TransactionIds : Completed(t) /\ Cardinality(EntriesOf(t)) = 1

\* C2: completing a pending transaction that no audit row references is
\* rejected with the 400 "cannot be completed without any operations", and
\* the rejection leaves the transaction pending with completed_at NULL and
\* the service's scope as it was.
C2_IncompleteRejected ==
    \A t \in TransactionIds :
        Pending(t) /\ EntriesOf(t) = {} =>
            LET o == complete_transaction(t)
            IN /\ o.response =
                    Response(400, "Transaction cannot be completed without any operations. Please add at least one operation before completing.")
               /\ o.state.transactions[t].status = "pending"
               /\ o.state.transactions[t].completed_at = 0
               /\ ScopeUnchangedBy(o)

C2_Witness ==
    \E t \in TransactionIds :
        Pending(t) /\ EntriesOf(t) = {} /\ current_transaction_id = t /\ audit_logs # <<>>

\* C3: completing a transaction that is already completed is rejected with
\* the 400 "Transaction already completed" and changes nothing: the
\* transactions, the audit rows, the scope and the rest of the state.
C3_AlreadyCompletedRejected ==
    \A t \in TransactionIds :
        Completed(t) =>
            /\ complete_transaction(t).response = Response(400, "Transaction already completed")
            /\ complete_transaction(t).state = State

C3_Witness ==
    \E t \in TransactionIds : Completed(t) /\ current_transaction_id # 0

\* A step to the state a handler's outcome describes.
Becomes(outcome) ==
    /\ transactions' = outcome.state.transactions
    /\ next_transaction_uuid' = outcome.state.next_transaction_uuid
    /\ tables' = outcome.state.tables
    /\ next_id' = outcome.state.next_id
    /\ audit_logs' = outcome.state.audit_logs
    /\ next_commit_uuid' = outcome.state.next_commit_uuid
    /\ current_transaction_id' = outcome.state.current_transaction_id
    /\ current_author' = outcome.state.current_author
    /\ clock' = outcome.state.clock

C4_CompleteSucceedsNow ==
    \A t \in TransactionIds :
        Pending(t) /\ EntriesOf(t) # {} =>
            /\ complete_transaction(t).response.code = 200
            /\ complete_transaction(t).state.transactions[t].status = "completed"

C4_AfterOneCreate ==
    \A t \in TransactionIds, type \in {"user", "product"}, v \in SpecValues :
        LET operation == Operation(type, "create", 0, (DataField(ClassOf(type)) :> v))
        IN \A fault \in Faults(<<operation>>) :
            LET o == execute_transaction_operations(t, <<operation>>, fault)
            IN /\ Pending(t) /\ EntriesOf(t) = {}
               /\ Becomes(o)
               /\ o.response.code = 200
               /\ o.response.audit_commit_errors = <<>>
               => (complete_transaction(t).response.code = 200)'

\* C4: completing a pending transaction that at least one audit row
\* references succeeds and makes it completed; in particular it succeeds
\* right after a fresh transaction ran a batch of one create operation whose
\* audit row was written.
C4_CompleteSucceeds == []C4_CompleteSucceedsNow /\ [][C4_AfterOneCreate]_vars

C4_Witness ==
    \E t \in TransactionIds :
        /\ Completed(t)
        /\ \E i \in EntriesOf(t) : audit_logs[i].change_type = "CREATED"
        /\ \E u \in TransactionIds : Pending(u)

\* C5: a transaction appears with status pending and under an id never used
\* before, and a completed transaction is never pending again; so each
\* transaction goes from pending to completed at most once.
C5_StatusMonotonic ==
    [][\A t \in TransactionIds :
          /\ t \notin DOMAIN transactions /\ t \in DOMAIN transactions'
                => transactions'[t].status = "pending" /\ t > next_transaction_uuid
          /\ Completed(t) /\ t \in DOMAIN transactions'
                => transactions'[t].status = "completed"]_vars

C5_Witness ==
    \E t, u \in TransactionIds : Completed(t) /\ u > t /\ u \notin DOMAIN transactions
                                  /\ u <= next_transaction_uuid

\* C6: for every stored transaction, completed_at is set if and only if the
\* status is completed.
C6_CompletedAtIffCompleted ==
    \A t \in DOMAIN transactions :
        transactions[t].completed_at # 0 <=> transactions[t].status = "completed"

C6_Witness ==
    \E t, u \in TransactionIds :
        /\ Completed(t) /\ transactions[t].completed_at # 0
        /\ Pending(u) /\ EntriesOf(u) = {}

\* C7: an execute request for a completed transaction, or for a transaction
\* id that is not stored, is rejected (400 or 404) with no results, and
\* leaves the primary store, the audit rows, the scope and the rest of the
\* state as they were.
C7_ExecuteRejected ==
    \A t \in TransactionIds, operations \in SpecBatches :
        \A fault \in Faults(operations) :
            t \notin DOMAIN transactions \/ Completed(t) =>
                LET o == execute_transaction_operations(t, operations, fault)
                IN /\ o.state = State
                   /\ o.response.code = IF Completed(t) THEN 400 ELSE 404
                   /\ o.response.results = <<>>

C7_Witness ==
    \E t \in TransactionIds :
        /\ Completed(t)
        /\ current_transaction_id \notin {0, t}
        /\ \E cls \in Classes : tables[cls] # <<>>

\* C8: no step appends an audit row whose transaction_id names a
\* transaction that is completed when the row is appended.
C8_NoAppendToCompleted ==
    [][\A i \in DOMAIN audit_logs' :
          i > Len(audit_logs) =>
              LET t == audit_logs'[i].transaction_id
              IN /\ ~Completed(t)
                 /\ ~(t \in DOMAIN transactions' /\ transactions'[t].status = "completed")]_vars

C8_Witness ==
    \E t \in TransactionIds, i \in DOMAIN audit_logs :
        /\ Completed(t)
        /\ audit_logs[i].commit_date >= transactions[t].completed_at
        /\ audit_logs[i].transaction_id # t

\* C9 (as the specification states it): once a transaction is bound as the
\* service's scope, no step binds another transaction or author in its
\* place; the scope changes only by being cleared.
C9_BoundScopeNotOverwritten ==
    [][current_transaction_id # 0 /\ current_transaction_id' # 0
          => /\ current_transaction_id' = current_transaction_id
             /\ current_author' = current_author]_vars

\* C10: while no scope is bound, every direct request that reaches
\* commit_changes gets the 500 "No active transaction" and the audit rows
\* stay as they were.
C10_NoActiveTransaction ==
    current_transaction_id = 0 =>
        \A o \in {create_product(v) : v \in SpecValues}
                \cup {create_user(v) : v \in SpecValues}
                \cup {update_user(id, data) : id \in Ids, data \in Payloads("User", SpecValues)}
                \cup {update_product(id, data) : id \in Ids, data \in Payloads("Product", SpecValues)}
                \cup {delete_user(id) : id \in Ids}
                \cup {delete_product(id) : id \in Ids} :
            /\ o.state.audit_logs = audit_logs
            /\ o.response.code # 200
            /\ o.state # State => o.response = Response(500, "No active transaction")

C10_Witness ==
    /\ current_transaction_id = 0
    /\ audit_logs = <<>>
    /\ tables["Product"] # <<>>

\* The rows an outcome adds to audit_logs.
Appended(outcome) ==
    {i \in DOMAIN outcome.state.audit_logs : i > Len(audit_logs)}

\* C11: every audit row an execute request for transaction T appends carries
\* transaction_id T and the author that request bound ("system"), whatever
\* scope other requests left bound before it.
C11_EntriesStamped ==
    \A t \in TransactionIds, operations \in SpecBatches :
        \A fault \in Faults(operations) :
            LET o == execute_transaction_operations(t, operations, fault)
            IN \A i \in Appended(o) :
                  /\ o.state.audit_logs[i].transaction_id = t
                  /\ o.state.audit_logs[i].author = "system"

C11_Witness ==
    \E t, u \in TransactionIds :
        /\ t # u /\ Pending(t) /\ Pending(u)
        /\ current_transaction_id = u
        /\ EntriesOf(t) # {}

\* The positions of a response's results that report success, and the ids
\* of the rows of a class they report for a verb.
Successes(response) ==
    {i \in DOMAIN response.results :
        /\ "success" \in DOMAIN response.results[i]
        /\ response.results[i].success}

SucceededIds(response, cls, verb) ==
    {response.results[i].id : i \in
        {j \in Successes(response) :
            /\ ClassOf(response.results[j].type) = cls
            /\ response.results[j].operation = verb}}

\* The successful update at position i is the last operation on its row.
LastOnRow(response, i) ==
    \A j \in Successes(response) :
        j > i => \/ response.results[j].type # response.results[i].type
                 \/ response.results[j].id # response.results[i].id

\* C12: an execute request is all-or-nothing on the primary store. A failed
\* request (one whose operation or final commit raised) leaves users and
\* products as they were; a successful one commits the mutations of all its
\* successful operations: created rows are stored, deleted rows are gone,
\* and a row's last update shows in it.
C12_AllOrNothing ==
    \A t \in TransactionIds, operations \in BatchBatches :
        \A fault \in Faults(operations) :
            LET o == execute_transaction_operations(t, operations, fault)
                r == o.response
            IN /\ Pending(t) /\ fault.primary = Len(operations) + 1 => r.code = 500
               /\ r.code # 200 => o.state.tables = tables /\ o.state.next_id = next_id
               /\ r.code = 200 =>
                    /\ Len(r.results) = Len(operations)
                    /\ \A cls \in Classes :
                          DOMAIN o.state.tables[cls] =
                            (DOMAIN tables[cls] \cup SucceededIds(r, cls, "create"))
                                \ SucceededIds(r, cls, "delete")
                    /\ \A i \in Successes(r) :
                          LET cls == ClassOf(r.results[i].type)
                              id == r.results[i].id
                              data == operations[i].data
                          IN /\ r.results[i].operation \in {"create", "update"}
                             /\ LastOnRow(r, i)
                             /\ DataField(cls) \in DOMAIN data
                             => o.state.tables[cls][id][DataField(cls)] = data[DataField(cls)]

C12_Witness ==
    /\ DOMAIN tables["User"] = {1, 2}
    /\ tables["User"][1]["username"] = "b"
    /\ Len(audit_logs) = 2

\* C13: an execute request that fails on the primary store, in an operation
\* or at the final commit, writes no audit row: the audit store after the
\* failed request is the audit store before it.
C13_NoAuditOnPrimaryFailure ==
    \A t \in TransactionIds, operations \in BatchBatches :
        \A fault \in Faults(operations) :
            LET o == execute_transaction_operations(t, operations, fault)
            IN o.response.code = 500 \/ (Pending(t) /\ fault.primary = Len(operations) + 1)
               => /\ o.response.code = 500
                  /\ o.state.audit_logs = audit_logs
                  /\ o.state.next_commit_uuid = next_commit_uuid

C13_Witness ==
    /\ Pending(1) /\ current_transaction_id = 1
    /\ audit_logs = <<>>
    /\ tables["User"] = <<Entity("User", 1, "a")>>

\* What identifies the entry of a draft in the audit store.
Draft(row) ==
    [entity_type |-> row.entity_type, entity_id |-> row.entity_id,
     change_type |-> row.change_type, new_values |-> row.new_values]

\* C14: in an execute request whose primary-store commit succeeded, failing
\* audit appends change neither the answer (200, same results) nor the
\* committed primary store; every draft whose append did not fail is still
\* written, and every failed draft has its item in audit_commit_errors.
C14_AuditFailureNotFatal ==
    \A t \in TransactionIds, operations \in BatchBatches :
        \A failed \in SUBSET (1..Len(operations)) :
            LET clean == execute_transaction_operations(t, operations, Fault(0, {}))
                o == execute_transaction_operations(t, operations, Fault(0, failed))
                drafts == 1..Cardinality(Successes(clean.response))
            IN clean.response.code = 200 =>
                /\ o.response.code = 200
                /\ o.response.results = clean.response.results
                /\ o.state.tables = clean.state.tables
                /\ Len(o.response.audit_commit_errors) = Cardinality(failed \cap drafts)
                /\ Cardinality(Appended(o)) = Cardinality(drafts \ failed)
                /\ \A k \in drafts \ failed :
                      \E i \in Appended(o) :
                          Draft(o.state.audit_logs[i])
                            = Draft(clean.state.audit_logs[Len(audit_logs) + k])

C14_Witness ==
    /\ DOMAIN tables["User"] = {1, 2}
    /\ DOMAIN tables["Product"] = {1}
    /\ Len(audit_logs) = 1
    /\ audit_logs[1].entity_type = "Product"

\* C15: no audit gap is silent. After a successful execute request for T,
\* the rows it appended plus the items of audit_commit_errors number the
\* operations reported with success = true, and changesForTransaction(T)
\* grows by exactly the successes whose append did not fail.
C15_NoSilentGap ==
    \A t \in TransactionIds, operations \in BatchBatches :
        \A fault \in Faults(operations) :
            LET o == execute_transaction_operations(t, operations, fault)
                r == o.response
            IN r.code = 200 =>
                /\ Cardinality(Appended(o)) + Len(r.audit_commit_errors)
                     = Cardinality(Successes(r))
                /\ Len(get_changes_for_transaction(o.state.audit_logs, t))
                     = Len(get_changes_for_transaction(audit_logs, t))
                       + Cardinality(Successes(r)) - Len(r.audit_commit_errors)

C15_Witness ==
    /\ Len(get_changes_for_transaction(audit_logs, 1)) = 2
    /\ DOMAIN tables["Product"] = {1}

\* A batch without its operation number i.
Without(operations, i) ==
    SubSeq(operations, 1, i - 1) \o SubSeq(operations, i + 1, Len(operations))

\* The result at position i is a soft failure {success: false, error: ...}.
SoftFailure(response, i) ==
    /\ i \in DOMAIN response.results
    /\ "success" \in DOMAIN response.results[i]
    /\ ~response.results[i].success
    /\ "error" \in DOMAIN response.results[i]

\* Operation i of the batch fails softly: the request answers as the batch
\* without it does, commits the same primary store, and reports a soft
\* failure at position i.
FailsSoftly(t, operations, i) ==
    LET o == execute_transaction_operations(t, operations, Fault(0, {}))
        rest == execute_transaction_operations(t, Without(operations, i), Fault(0, {}))
    IN Pending(t) /\ rest.response.code = 200 =>
        /\ o.response.code = 200
        /\ o.state.tables = rest.state.tables
        /\ Len(o.state.audit_logs) = Len(rest.state.audit_logs)
        /\ SoftFailure(o.response, i)

\* C16 (as the specification states it): an operation of unknown entity
\* kind yields a soft-failure result {success: false, error: ...} and does
\* not abort the batch; only the valid operations are committed and audited.
C16_UnknownKindSoftFailure ==
    \A t \in TransactionIds, operations \in BatchBatches :
        \A i \in DOMAIN operations :
            operations[i].type \notin {"user", "product"}
            => FailsSoftly(t, operations, i)

\* C17 (as the specification states it): an operation of known entity kind
\* with an unknown verb yields a soft-failure result with success = false
\* and does not abort the batch; the other operations are committed and the
\* request succeeds.
C17_UnknownVerbSoftFailure ==
    \A t \in TransactionIds, operations \in BatchBatches :
        \A i \in DOMAIN operations :
            /\ operations[i].type \in {"user", "product"}
            /\ operations[i].operation \notin {"create", "update", "delete"}
            => FailsSoftly(t, operations, i)

\* The audit row written for the successful operation at position i of a
\* request none of whose audit appends failed.
RowOf(outcome, i) ==
    outcome.state.audit_logs[
        Len(audit_logs)
        + Cardinality({j \in Successes(outcome.response) : j <= i})]

\* The primary store as operation i of the batch finds it: as the
\* operations before it leave it.
StoreBefore(t, operations, i) ==
    execute_transaction_operations(t, SubSeq(operations, 1, i - 1), Fault(0, {})).state.tables

\* C18: the UPDATED row of a batch update lists a field in changed_fields if
\* and only if the field is in the operation's payload and the row's value
\* before the update differs from the submitted one.
C18_ChangedFields ==
    \A t \in TransactionIds, operations \in BatchBatches :
        LET o == execute_transaction_operations(t, operations, Fault(0, {}))
        IN o.response.code = 200 =>
            \A i \in Successes(o.response) :
                o.response.results[i].operation = "update" =>
                    LET cls == ClassOf(operations[i].type)
                        before == StoreBefore(t, operations, i)[cls][operations[i].id]
                        data == operations[i].data
                    IN /\ RowOf(o, i).change_type = "UPDATED"
                       /\ RowOf(o, i).changed_fields =
                            Some({field \in DOMAIN data \cap Attributes(cls) :
                                    field \in DOMAIN before
                                    => before[field] # data[field]})

C18_Witness ==
    \E i, j \in DOMAIN audit_logs :
        /\ audit_logs[i].change_type = "UPDATED"
        /\ audit_logs[i].changed_fields = Some({"username"})
        /\ audit_logs[j].change_type = "UPDATED"
        /\ audit_logs[j].changed_fields = Some({})

\* C19: a DELETED row has no old_values, and its new_values are the
\* entity's fields as they were immediately before the delete (after the
\* earlier operations of the same batch).
C19_DeletedSnapshot ==
    /\ \A i \in DOMAIN audit_logs :
          audit_logs[i].change_type = "DELETED" => audit_logs[i].old_values = NoneJson
    /\ \A t \in TransactionIds, operations \in BatchBatches :
        LET o == execute_transaction_operations(t, operations, Fault(0, {}))
        IN o.response.code = 200 =>
            \A i \in Successes(o.response) :
                o.response.results[i].operation = "delete" =>
                    LET cls == ClassOf(operations[i].type)
                        before == StoreBefore(t, operations, i)[cls][operations[i].id]
                    IN /\ RowOf(o, i).change_type = "DELETED"
                       /\ RowOf(o, i).old_values = NoneJson
                       /\ RowOf(o, i).new_values = Some(before)

C19_Witness ==
    \E i \in DOMAIN audit_logs :
        /\ audit_logs[i].change_type = "DELETED"
        /\ audit_logs[i].new_values = Some(Entity("User", 1, "b"))
        /\ i = 2

\* The by-transaction and by-entity queries answer from `after` what they
\* answer from `before`, for transaction t and every entity `before` names.
SameAnswers(before, after, t) ==
    /\ get_changes_for_transaction(after, t) = get_changes_for_transaction(before, t)
    /\ \A i \in DOMAIN before :
          get_entity_history(after, before[i].entity_type, before[i].entity_id)
            = get_entity_history(before, before[i].entity_type, before[i].entity_id)

C20_DeleteKeepsEntries ==
    \A t \in DOMAIN transactions :
        LET o == delete_transaction(t)
        IN /\ o.response.code = 200
           /\ t \notin DOMAIN o.state.transactions
           /\ o.state.audit_logs = audit_logs
           /\ SameAnswers(audit_logs, o.state.audit_logs, t)

C20_RowsKept ==
    /\ Len(audit_logs') >= Len(audit_logs)
    /\ SubSeq(audit_logs', 1, Len(audit_logs)) = audit_logs

\* C20: audit rows are append-only: every step keeps the rows already
\* written, unchanged and in place; and delete_transaction(T) leaves the rows
\* that reference T where the by-transaction and by-entity queries return
\* them as before.
C20_AppendOnly == []C20_DeleteKeepsEntries /\ [][C20_RowsKept]_vars

C20_Witness ==
    \E i \in DOMAIN audit_logs :
        /\ audit_logs[i].transaction_id \notin DOMAIN transactions
        /\ Len(get_changes_for_transaction(audit_logs, audit_logs[i].transaction_id)) = 1
        /\ Len(get_entity_history(audit_logs, audit_logs[i].entity_type,
                                   audit_logs[i].entity_id)) >= 1
        /\ Len(audit_logs) = 2

\* C21: the commit_id values of the audit rows are pairwise distinct.
C21_CommitIdsDistinct ==
    \A i, j \in DOMAIN audit_logs :
        i # j => audit_logs[i].commit_id # audit_logs[j].commit_id

C21_Witness ==
    /\ Len(audit_logs) = 2
    /\ audit_logs[1].transaction_id # audit_logs[2].transaction_id
    /\ audit_logs[2].commit_id = next_commit_uuid

\* The rows of audit_logs about an entity.
RowsAbout(entity_type, entity_id) ==
    {i \in DOMAIN audit_logs :
        /\ audit_logs[i].entity_type = entity_type
        /\ audit_logs[i].entity_id = entity_id}

\* C22: entityHistory(entityType, entityId) returns exactly the rows with
\* that entity type and id, one item each, and each item's commit_date is at
\* least that of the next item.
C22_EntityHistory ==
    \A entity_type \in {"User", "Product", "dict"}, entity_id \in {"1", "2", "unknown"} :
        LET history == get_entity_history(audit_logs, entity_type, entity_id)
            rows == RowsAbout(entity_type, entity_id)
        IN /\ Len(history) = Cardinality(rows)
           /\ \A i \in rows : \E k \in DOMAIN history :
                 /\ history[k].commit_id = audit_logs[i].commit_id
                 /\ history[k].commit_date = audit_logs[i].commit_date
                 /\ history[k].state = audit_logs[i].new_values
                 /\ history[k].change_type = audit_logs[i].change_type
                 /\ history[k].author = audit_logs[i].author
           /\ \A k \in DOMAIN history :
                 k < Len(history) => history[k].commit_date >= history[k + 1].commit_date

C22_Witness ==
    /\ Len(get_entity_history(audit_logs, "User", "1")) = 2
    /\ audit_logs[2].change_type = "DELETED"

\* A direct create is recorded under transaction t: the request succeeds and
\* appends a row that references t, so that t can then be completed.
DirectCreateRecordedUnder(t) ==
    \A o \in {create_product(v) : v \in SpecValues} :
        /\ o.response.code = 200
        /\ \E i \in Appended(o) : o.state.audit_logs[i].transaction_id = t

\* C23 (as the demo flow expects it): once POST /transactions has created a
\* transaction, a mutation through a direct endpoint is recorded as an audit
\* row under that transaction (so that the transaction can be completed and
\* its by-transaction query returns the change).
C23_DirectRecordedUnderCreated ==
    [][\A t \in TransactionIds :
          t \notin DOMAIN transactions /\ t \in DOMAIN transactions'
          => DirectCreateRecordedUnder(t)']_vars

\* C24 (as the specification states it): an update or delete that targets
\* a row the store does not hold yields a result with success = false and
\* does not abort the batch; the other operations are committed and the
\* request succeeds.
C24_MissingEntitySoftFailure ==
    \A t \in TransactionIds, operations \in BatchBatches :
        \A i \in DOMAIN operations :
            /\ operations[i].type \in {"user", "product"}
            /\ operations[i].operation \in {"update", "delete"}
            /\ Pending(t)
            /\ operations[i].id \notin
                    DOMAIN StoreBefore(t, operations, i)[ClassOf(operations[i].type)]
            => FailsSoftly(t, operations, i)

\* The row written for the create or update at position i shows the entity
\* as that operation left it, and for an update the old and the submitted
\* value of every changed field.
ShowsOperation(t, operations, o, i) ==
    LET cls == ClassOf(operations[i].type)
        id == o.response.results[i].id
        row == RowOf(o, i)
        after == StoreBefore(t, operations, i + 1)[cls][id]
    IN /\ row.new_values = Some(after)
       /\ row.change_type = "UPDATED" =>
            LET before == StoreBefore(t, operations, i)[cls][id]
            IN \A field \in row.changed_fields[1] :
                  /\ field \in DOMAIN row.old_values[1]
                  /\ row.old_values[1][field] = before[field]
                  /\ field \in DOMAIN row.new_values[1]
                  /\ row.new_values[1][field] = operations[i].data[field]

\* C25 (as the specification states it): the new_values of a CREATED or
\* UPDATED row written by a batch are the entity's state immediately after
\* that operation, also when a later operation of the batch modifies the same
\* entity; an UPDATED row has, for every changed field, the value before the
\* operation in old_values and the submitted value in new_values.
C25_NewValuesAfterOperation ==
    \A t \in TransactionIds, operations \in BatchBatches :
        LET o == execute_transaction_operations(t, operations, Fault(0, {}))
        IN o.response.code = 200 =>
            \A i \in Successes(o.response) :
                o.response.results[i].operation \in {"create", "update"}
                => ShowsOperation(t, operations, o, i)

\* C26 (as the specification states it): the changed_fields of an UPDATED
\* row are among the keys of its old_values and among the keys of the
\* submitted payload: no field is listed without a recorded old value.
C26_ChangedFieldsHaveOldValues ==
    \A t \in TransactionIds, operations \in BatchBatches :
        LET o == execute_transaction_operations(t, operations, Fault(0, {}))
        IN o.response.code = 200 =>
            \A i \in Successes(o.response) :
                o.response.results[i].operation = "update" =>
                    /\ RowOf(o, i).changed_fields[1] \subseteq DOMAIN RowOf(o, i).old_values[1]
                    /\ RowOf(o, i).changed_fields[1] \subseteq DOMAIN operations[i].data

\* C27: a batch update whose payload changes nothing (every submitted value
\* is the current one, or nothing is submitted) still writes its UPDATED row,
\* with an empty changed_fields.
C27_UnchangedUpdateRecorded ==
    \A t \in TransactionIds, operations \in BatchBatches :
        LET o == execute_transaction_operations(t, operations, Fault(0, {}))
        IN o.response.code = 200 =>
            /\ Cardinality(Appended(o)) = Cardinality(Successes(o.response))
            /\ \A i \in Successes(o.response) :
                LET cls == ClassOf(operations[i].type)
                    id == operations[i].id
                    data == operations[i].data
                IN /\ o.response.results[i].operation = "update"
                   /\ \A field \in DOMAIN data \cap Attributes(cls) :
                         /\ field \in DOMAIN StoreBefore(t, operations, i)[cls][id]
                         /\ StoreBefore(t, operations, i)[cls][id][field] = data[field]
                   => /\ RowOf(o, i).change_type = "UPDATED"
                      /\ RowOf(o, i).entity_type = cls
                      /\ RowOf(o, i).entity_id = Str(id)
                      /\ RowOf(o, i).changed_fields = Some({})

C27_Witness ==
    /\ Len(audit_logs) = 1
    /\ audit_logs[1].change_type = "UPDATED"
    /\ audit_logs[1].changed_fields = Some({})
    /\ tables["User"] = <<Entity("User", 1, "a")>>

\* Every row an outcome appends has the given change_type.
AppendsOnly(outcome, change_type) ==
    \A i \in Appended(outcome) : outcome.state.audit_logs[i].change_type = change_type

ChangeTypeOf(verb) ==
    IF verb = "create" THEN "CREATED" ELSE IF verb = "update" THEN "UPDATED" ELSE "DELETED"

\* C28 (as the specification states it): on every write path the
\* change_type of an audit row is that of the mutation that produced it:
\* CREATED for a create, UPDATED for an update, DELETED for a delete.
C28_ChangeTypeMatches ==
    /\ \A v \in SpecValues :
          AppendsOnly(create_user(v), "CREATED") /\ AppendsOnly(create_product(v), "CREATED")
    /\ \A id \in Ids :
          /\ \A data \in Payloads("User", SpecValues) :
                AppendsOnly(update_user(id, data), "UPDATED")
          /\ \A data \in Payloads("Product", SpecValues) :
                AppendsOnly(update_product(id, data), "UPDATED")
          /\ AppendsOnly(delete_user(id), "DELETED")
          /\ AppendsOnly(delete_product(id), "DELETED")
    /\ \A t \in TransactionIds, operations \in SpecBatches :
          LET o == execute_transaction_operations(t, operations, Fault(0, {}))
          IN o.response.code = 200 =>
                \A i \in Successes(o.response) :
                    RowOf(o, i).change_type = ChangeTypeOf(o.response.results[i].operation)

\* Every row an outcome appends names the entity, and entityHistory of the
\* entity returns it.
AppendsAbout(outcome, cls, id) ==
    \A i \in Appended(outcome) :
        /\ outcome.state.audit_logs[i].entity_type = cls
        /\ outcome.state.audit_logs[i].entity_id = Str(id)
        /\ \E k \in DOMAIN get_entity_history(outcome.state.audit_logs, cls, Str(id)) :
              get_entity_history(outcome.state.audit_logs, cls, Str(id))[k].commit_id
                = outcome.state.audit_logs[i].commit_id

\* C29 (as the specification states it): the audit row of a deletion carries
\* the entity_type and entity_id of the deleted entity on every write path,
\* the batch and the direct delete endpoints, so that entityHistory of that
\* entity returns it.
C29_DeletionNamesEntity ==
    /\ \A id \in Ids :
          /\ AppendsAbout(delete_user(id), "User", id)
          /\ AppendsAbout(delete_product(id), "Product", id)
    /\ \A t \in TransactionIds, type \in {"user", "product"}, id \in Ids :
          LET o == execute_transaction_operations(t,
                        <<Operation(type, "delete", id, <<>>)>>, Fault(0, {}))
          IN o.response.code = 200 => AppendsAbout(o, ClassOf(type), id)

\* C30 (as the specification states it): a successful completion of a
\* transaction clears the active scope only when the scope is bound to that
\* transaction; a scope bound to another transaction keeps its
\* transaction_id and author.
C30_CompleteClearsOwnScopeOnly ==
    \A a \in TransactionIds :
        (/\ complete_transaction(a).response.code = 200
         /\ current_transaction_id \notin {0, a})
            => ScopeUnchangedBy(complete_transaction(a))

\* C31 (as the specification's model implies it): whenever the active scope is
\* bound to a transaction id, that id is a stored transaction whose status is
\* pending; the scope is never bound to a completed or a deleted transaction.
C31_ScopeBoundToPending ==
    current_transaction_id # 0 => Pending(current_transaction_id)

\* C32 (as the specification's model implies it): an execute request that
\* fails, with transaction not found, transaction already completed, or a
\* primary-store failure and rollback, leaves the active scope as it was.
C32_FailedExecuteKeepsScope ==
    \A t \in TransactionIds, operations \in SpecBatches :
        \A fault \in Faults(operations) :
            LET o == execute_transaction_operations(t, operations, fault)
            IN o.response.code # 200 => ScopeUnchangedBy(o)

\* The request failed and the primary store is as it was before it.
FailsCleanly(outcome) ==
    outcome.response.code # 200 => outcome.state.tables = tables

\* C33 (as the specification's model implies it): a direct user or product
\* create, update or delete request that ends in an error because its audit
\* commit fails leaves the primary store unchanged.
C33_FailedDirectRequestNotPersisted ==
    /\ \A v \in SpecValues :
          FailsCleanly(create_user(v)) /\ FailsCleanly(create_product(v))
    /\ \A id \in Ids :
          /\ \A data \in Payloads("User", SpecValues) :
                FailsCleanly(update_user(id, data))
          /\ \A data \in Payloads("Product", SpecValues) :
                FailsCleanly(update_product(id, data))
          /\ FailsCleanly(delete_user(id))
          /\ FailsCleanly(delete_product(id))

RECURSIVE Total(_)
Total(counts) ==
    IF DOMAIN counts = {} THEN 0
    ELSE LET value == CHOOSE v \in DOMAIN counts : TRUE
         IN counts[value] + Total([v \in DOMAIN counts \ {value} |-> counts[v]])

\* The response's counts agree with one another and with the rows of the
\* store that fall in its window.
Consistent(response, logs) ==
    /\ Total(response.change_type_breakdown) = response.total_audit_logs
    /\ Total(response.entity_type_breakdown) = response.total_audit_logs
    /\ response.unique_transactions =
          Cardinality({logs[i].transaction_id :
                         i \in {j \in DOMAIN logs :
                                   logs[j].commit_date >= response.cutoff_date}})
    /\ response.total_audit_logs =
          Cardinality({j \in DOMAIN logs :
                         logs[j].commit_date >= response.cutoff_date})

\* C34: every summary response is internally consistent, whatever the other
\* requests append while the server is up: the counts of
\* change_type_breakdown sum to total_audit_logs, the counts of
\* entity_type_breakdown sum to total_audit_logs, and unique_transactions is
\* the number of distinct transaction ids among the counted rows.
C34_SummaryConsistent ==
    [][(summary_query = 3 /\ summary_query' = 0) => Consistent(summary', audit_logs')]_vars

C34_Witness ==
    /\ summary_query = 0
    /\ summary.total_audit_logs = 2
    /\ summary.unique_transactions = 2
    /\ Cardinality(DOMAIN summary.change_type_breakdown) = 2
    /\ Cardinality(DOMAIN summary.entity_type_breakdown) = 2

====
